---- MODULE Spec2Model ----
(***************************************************************************)
(* State-machine model of the Home page component of the hospital planner  *)
(* (src/src/app/page.tsx): the form draft, validateForm, handleSubmit with *)
(* its three suspension points (fetch, response.text(), response.json()),  *)
(* the activeTab effect keyed on result?.metrics.iterations, and the tab   *)
(* buttons.  React renders after every handler or continuation, and the    *)
(* passive effect of that render runs before the next event is handled,    *)
(* so every action below ends with the effect applied.                     *)
(***************************************************************************)
EXTENDS Integers, Sequences, FiniteSets, TLC

VARIABLES
  form,          \* useState<FormState>(initialForm)
  result,        \* useState<SimulationResponse | null>(null)
  loading,       \* useState(false)
  errorMessage,  \* useState<string | null>(null)
  activeTab,     \* useState<"visual" | "metricas" | "hospitales">("visual")
  requests,      \* handleSubmit invocations suspended at an await
  issued,        \* number of fetch calls made so far (ids 1..issued)
  lastSettled    \* history: the invocation that finished last, and the JSON it stored

vars == <<form, result, loading, errorMessage, activeTab, requests, issued, lastSettled>>

----------------------------------------------------------------------------
(* Bounds *)

\* handleSubmit invocations that get as far as calling fetch
MaxSubmits == 2

\* edits of the form: <<field, event.target.value>>
Edits ==
  {<<"num_neighborhoods", "">>, <<"num_neighborhoods", "600">>,
   <<"k", "">>, <<"k", "5">>,
   <<"random_seed", "">>}

\* metrics.iterations and grid_size of the payloads the solver may return
IterationValues == {1, 2}
GridSizes == {10, 20}

\* response bodies of non-2xx answers
Details == {"", "Internal Server Error"}

\* largest magnitude of a number held by a field of a draft
MaxVal == 2

----------------------------------------------------------------------------
(* JavaScript values.  null / undefined / an absent key are None, a present *)
(* value x is Some(x).                                                      *)

None == <<>>
Some(x) == <<x>>

\* a form field holds a number, NaN, or (the seed only) the empty string
Num(n) == [kind |-> "number", n |-> n]
NaN == [kind |-> "NaN", n |-> 0]
EmptyString == [kind |-> "string", n |-> 0]

\* Number(value) for the strings a field may receive
Number(value) ==
  CASE value = "" -> Num(0)
    [] value = "0" -> Num(0)
    [] value = "1" -> Num(1)
    [] value = "2" -> Num(2)
    [] value = "3" -> Num(3)
    [] value = "5" -> Num(5)
    [] value = "600" -> Num(600)
    [] value = "-1" -> Num(-1)
    [] value = "-2" -> Num(-2)
    [] OTHER -> NaN

\* ToNumber of a stored field value, for the relational operators
ToNumber(v) == IF v.kind = "string" THEN Num(0) ELSE v

\* !v
Not(v) == v.kind = "NaN" \/ v.kind = "string" \/ (v.kind = "number" /\ v.n = 0)

\* a <= b and a > b; every comparison with NaN is false
LessEq(a, b) ==
  /\ ToNumber(a).kind = "number"
  /\ ToNumber(b).kind = "number"
  /\ ToNumber(a).n <= ToNumber(b).n

Greater(a, b) ==
  /\ ToNumber(a).kind = "number"
  /\ ToNumber(b).kind = "number"
  /\ ToNumber(a).n > ToNumber(b).n

\* JSON.stringify of a number: NaN is written as null
Null == [kind |-> "null", n |-> 0]
JsonNumber(v) == IF v.kind = "NaN" THEN Null ELSE v

\* typeof v === "number"
TypeofNumber(v) == v.kind \in {"number", "NaN"}

----------------------------------------------------------------------------
(* Program constants *)

Tabs == {"visual", "metricas", "hospitales"}

NumberFields == {"m", "num_neighborhoods", "k"}
Fields == NumberFields \cup {"random_seed"}

initialForm ==
  [m |-> Num(100), num_neighborhoods |-> Num(600), k |-> Num(5), random_seed |-> Num(42)]

MsgM == "m debe ser mayor a 0."
MsgNeighborhoods == "El número de vecindarios debe ser mayor a 0."
MsgK == "K debe ser mayor a 0."
MsgKExceeds == "K no puede superar al número de vecindarios."

HttpFallback == "No pudimos completar la simulación. Intenta de nuevo."
GenericFallback == "Ocurrió un error inesperado al comunicarse con el backend."

\* bodies the solver may answer a 2xx with
Payloads == [grid_size : GridSizes, metrics : [iterations : IterationValues]]

\* values a rejected promise may carry: an Error with a message, or something
\* that is not an Error
Error(message) == [isError |-> TRUE, message |-> message]
NonError == [isError |-> FALSE, message |-> ""]
FetchRejections == {Error("Failed to fetch"), NonError}
BodyRejections == {Error("Unexpected token < in JSON at position 0"), NonError}

----------------------------------------------------------------------------
(* Validation Module *)

\* errors.join("")
RECURSIVE JoinNoSeparator(_)
JoinNoSeparator(errors) ==
  IF Len(errors) = 0 THEN ""
  ELSE IF Len(errors) = 1 THEN errors[1]
  ELSE errors[1] \o JoinNoSeparator(Tail(errors))

\* errors.join(" ")
RECURSIVE Join(_)
Join(errors) ==
  IF Len(errors) = 0 THEN ""
  ELSE IF Len(errors) = 1 THEN errors[1]
  ELSE errors[1] \o " " \o Join(Tail(errors))

\* validateForm returning at the first violated rule
validateFormFirstOnly(f) ==
  IF Not(f.m) \/ LessEq(f.m, Num(0)) THEN <<MsgM>>
  ELSE IF Not(f.num_neighborhoods) \/ LessEq(f.num_neighborhoods, Num(0))
    THEN <<MsgNeighborhoods>>
  ELSE IF Not(f.k) \/ LessEq(f.k, Num(0)) THEN <<MsgK>>
  ELSE IF Greater(f.k, f.num_neighborhoods) THEN <<MsgKExceeds>>
  ELSE <<>>

\* validateForm testing only "<= 0", without the "!" tests
validateFormNoFalsy(f) ==
  (IF LessEq(f.m, Num(0)) THEN <<MsgM>> ELSE <<>>)
  \o (IF LessEq(f.num_neighborhoods, Num(0)) THEN <<MsgNeighborhoods>> ELSE <<>>)
  \o (IF LessEq(f.k, Num(0)) THEN <<MsgK>> ELSE <<>>)
  \o (IF Greater(f.k, f.num_neighborhoods) THEN <<MsgKExceeds>> ELSE <<>>)

validateForm(f) ==
  (IF Not(f.m) \/ LessEq(f.m, Num(0)) THEN <<MsgM>> ELSE <<>>)
  \o (IF Not(f.num_neighborhoods) \/ LessEq(f.num_neighborhoods, Num(0))
        THEN <<MsgNeighborhoods>> ELSE <<>>)
  \o (IF Not(f.k) \/ LessEq(f.k, Num(0)) THEN <<MsgK>> ELSE <<>>)
  \o (IF /\ TypeofNumber(f.num_neighborhoods)
         /\ TypeofNumber(f.k)
         /\ Greater(f.k, f.num_neighborhoods)
        THEN <<MsgKExceeds>> ELSE <<>>)

----------------------------------------------------------------------------
(* View State Machine *)

\* the effect's dependency, result?.metrics.iterations
EffectDep(res) == IF res = None THEN None ELSE Some(res[1].metrics.iterations)

\* the tab after the render that follows a change of result: the effect
\* runs setActiveTab("visual") when its dependency differs from the one of
\* the previous render
TabAfterRender(prev, next, tab) ==
  IF EffectDep(prev) # EffectDep(next) THEN "visual" ELSE tab

\* SelectTab refused while a request is loading
SelectTabUnlessLoading(tab) ==
  /\ result # None
  /\ ~loading
  /\ activeTab' = tab
  /\ UNCHANGED <<form, result, loading, errorMessage, requests, issued, lastSettled>>

\* onClick of a tab button; the buttons are rendered only when result is set
SelectTab(tab) ==
  /\ result # None
  /\ activeTab' = tab
  /\ UNCHANGED <<form, result, loading, errorMessage, requests, issued, lastSettled>>

----------------------------------------------------------------------------
(* Form *)

handleNumberChange(field, value) ==
  /\ form' =
       IF field = "random_seed"
         THEN [form EXCEPT !.random_seed = IF value = "" THEN EmptyString ELSE Number(value)]
         ELSE [form EXCEPT ![field] = IF value = "" THEN Num(0) ELSE Number(value)]
  /\ UNCHANGED <<result, loading, errorMessage, activeTab, requests, issued, lastSettled>>

----------------------------------------------------------------------------
(* Request Controller *)

\* RequestPayload with num_neighborhoods and k exchanged
RequestPayloadSwapped(f) ==
  [m |-> ToNumber(f.m),
   num_neighborhoods |-> ToNumber(f.k),
   k |-> ToNumber(f.num_neighborhoods),
   random_seed |-> IF f.random_seed # EmptyString THEN Some(ToNumber(f.random_seed)) ELSE None]

\* RequestPayload with the seed tested for truthiness: a seed of 0 is dropped
RequestPayloadTruthySeed(f) ==
  [m |-> ToNumber(f.m),
   num_neighborhoods |-> ToNumber(f.num_neighborhoods),
   k |-> ToNumber(f.k),
   random_seed |-> IF ~Not(f.random_seed) THEN Some(ToNumber(f.random_seed)) ELSE None]

\* the object handed to JSON.stringify
RequestPayload(f) ==
  [m |-> ToNumber(f.m),
   num_neighborhoods |-> ToNumber(f.num_neighborhoods),
   k |-> ToNumber(f.k),
   random_seed |-> IF f.random_seed # EmptyString THEN Some(ToNumber(f.random_seed)) ELSE None]

\* JSON.stringify(payload): a key that was never assigned is left out
JSONStringify(payload) ==
  [m |-> JsonNumber(payload.m),
   num_neighborhoods |-> JsonNumber(payload.num_neighborhoods),
   k |-> JsonNumber(payload.k),
   random_seed |->
     IF payload.random_seed = None THEN None ELSE Some(JsonNumber(payload.random_seed[1]))]

\* handleSubmit up to its first await
handleSubmit ==
  LET errors == validateForm(form) IN
    IF Len(errors) > 0
      THEN /\ errorMessage' = Some(Join(errors))
           /\ UNCHANGED <<form, result, loading, activeTab, requests, issued, lastSettled>>
      ELSE /\ issued < MaxSubmits
           /\ errorMessage' = None
           /\ loading' = TRUE
           /\ issued' = issued + 1
           /\ requests' = requests \cup
                {[id |-> issued + 1, body |-> JSONStringify(RequestPayload(form)), pc |-> "fetch"]}
           /\ UNCHANGED <<form, result, activeTab, lastSettled>>

\* the submit event dispatched on the form: onSubmit has no guard of its own
FormSubmit == handleSubmit

\* the browser's constraint validation of the inputs (required, min)
ConstraintsMet(f) ==
  /\ LessEq(Num(10), f.m)
  /\ LessEq(Num(10), f.num_neighborhoods)
  /\ LessEq(Num(1), f.k)

\* a click on the submit button, which is disabled while loading
ClickSubmit ==
  /\ ~loading
  /\ ConstraintsMet(form)
  /\ handleSubmit

\* Succeed with a generation check: a response that a later submission has
\* overtaken is dropped
SucceedUnlessStale(r, json) ==
  /\ result' = IF r.id = issued THEN Some(json) ELSE result
  /\ loading' = FALSE
  /\ activeTab' =
       TabAfterRender(result, IF r.id = issued THEN Some(json) ELSE result, activeTab)
  /\ requests' = requests \ {r}
  /\ lastSettled' = [id |-> r.id, json |-> Some(json)]
  /\ UNCHANGED <<form, errorMessage, issued>>

\* setResult(json), then finally
Succeed(r, json) ==
  /\ result' = Some(json)
  /\ loading' = FALSE
  /\ activeTab' = TabAfterRender(result, Some(json), activeTab)
  /\ requests' = requests \ {r}
  /\ lastSettled' = [id |-> r.id, json |-> Some(json)]
  /\ UNCHANGED <<form, errorMessage, issued>>

\* CaughtMessage ignoring what was thrown
CaughtMessageGeneric(error) == GenericFallback

\* the message the catch block shows for a thrown value
CaughtMessage(error) == IF error.isError THEN error.message ELSE GenericFallback

\* Fail without the finally block
FailNoFinally(r, error) ==
  /\ result' = None
  /\ errorMessage' = Some(CaughtMessage(error))
  /\ activeTab' = TabAfterRender(result, None, activeTab)
  /\ requests' = requests \ {r}
  /\ lastSettled' = [id |-> r.id, json |-> None]
  /\ UNCHANGED <<form, issued, loading>>

\* catch, then finally
Fail(r, error) ==
  /\ result' = None
  /\ errorMessage' = Some(CaughtMessage(error))
  /\ loading' = FALSE
  /\ activeTab' = TabAfterRender(result, None, activeTab)
  /\ requests' = requests \ {r}
  /\ lastSettled' = [id |-> r.id, json |-> None]
  /\ UNCHANGED <<form, issued>>

\* await fetch(...) resolves with a response
FetchResolve(r, ok) ==
  /\ r.pc = "fetch"
  /\ requests' = (requests \ {r}) \cup {[r EXCEPT !.pc = IF ok THEN "json" ELSE "text"]}
  /\ UNCHANGED <<form, result, loading, errorMessage, activeTab, issued, lastSettled>>

\* await fetch(...) rejects
FetchReject(r, error) ==
  /\ r.pc = "fetch"
  /\ Fail(r, error)

\* TextResolve throwing new Error(detail) with no fallback
TextResolveNoFallback(r, detail) ==
  /\ r.pc = "text"
  /\ Fail(r, Error(detail))

\* await response.text() resolves: throw new Error(detail || fallback)
TextResolve(r, detail) ==
  /\ r.pc = "text"
  /\ Fail(r, Error(IF detail # "" THEN detail ELSE HttpFallback))

\* await response.text() rejects
TextReject(r, error) ==
  /\ r.pc = "text"
  /\ Fail(r, error)

\* await response.json() resolves
JsonResolve(r, json) ==
  /\ r.pc = "json"
  /\ Succeed(r, json)

\* await response.json() rejects
JsonReject(r, error) ==
  /\ r.pc = "json"
  /\ Fail(r, error)

----------------------------------------------------------------------------
(* Specification *)

Init ==
  /\ form = initialForm
  /\ result = None
  /\ loading = FALSE
  /\ errorMessage = None
  /\ activeTab = "visual"
  /\ requests = {}
  /\ issued = 0
  /\ lastSettled = [id |-> 0, json |-> None]

Next ==
  \/ \E edit \in Edits : handleNumberChange(edit[1], edit[2])
  \/ FormSubmit
  \/ ClickSubmit
  \/ \E tab \in Tabs : SelectTab(tab)
  \/ \E r \in requests, ok \in BOOLEAN : FetchResolve(r, ok)
  \/ \E r \in requests, error \in FetchRejections : FetchReject(r, error)
  \/ \E r \in requests, detail \in Details : TextResolve(r, detail)
  \/ \E r \in requests, error \in BodyRejections : TextReject(r, error)
  \/ \E r \in requests, json \in Payloads : JsonResolve(r, json)
  \/ \E r \in requests, error \in BodyRejections : JsonReject(r, error)

Spec == Init /\ [][Next]_vars

\* the page driven through its controls only: every submit is a click on the
\* submit button
ButtonNext ==
  \/ \E edit \in Edits : handleNumberChange(edit[1], edit[2])
  \/ ClickSubmit
  \/ \E tab \in Tabs : SelectTab(tab)
  \/ \E r \in requests, ok \in BOOLEAN : FetchResolve(r, ok)
  \/ \E r \in requests, error \in FetchRejections : FetchReject(r, error)
  \/ \E r \in requests, detail \in Details : TextResolve(r, detail)
  \/ \E r \in requests, error \in BodyRejections : TextReject(r, error)
  \/ \E r \in requests, json \in Payloads : JsonResolve(r, json)
  \/ \E r \in requests, error \in BodyRejections : JsonReject(r, error)

ButtonSpec == Init /\ [][ButtonNext]_vars

\* a response step of some suspended invocation
Settle ==
  \/ \E r \in requests, ok \in BOOLEAN : FetchResolve(r, ok)
  \/ \E r \in requests, error \in FetchRejections : FetchReject(r, error)
  \/ \E r \in requests, detail \in Details : TextResolve(r, detail)
  \/ \E r \in requests, error \in BodyRejections : TextReject(r, error)
  \/ \E r \in requests, json \in Payloads : JsonResolve(r, json)
  \/ \E r \in requests, error \in BodyRejections : JsonReject(r, error)

\* every pending promise eventually resolves or rejects
FairSpec == Spec /\ WF_vars(Settle)

\* Drafts: the forms handleNumberChange can leave behind, over numbers of
\* magnitude at most MaxVal, NaN, and a blank seed
DraftValues == {NaN} \cup {Num(n) : n \in -MaxVal..MaxVal}
DraftSeeds == {EmptyString, NaN, Num(0), Num(42)}
Drafts ==
  [m : DraftValues, num_neighborhoods : DraftValues, k : DraftValues, random_seed : DraftSeeds]

DraftInit ==
  /\ form \in Drafts
  /\ result = None
  /\ loading = FALSE
  /\ errorMessage = None
  /\ activeTab = "visual"
  /\ requests = {}
  /\ issued = 0
  /\ lastSettled = [id |-> 0, json |-> None]

DraftNext ==
  \/ \E field \in Fields : handleNumberChange(field, "")
  \/ FormSubmit

DraftSpec == DraftInit /\ [][DraftNext]_vars

\* the submissions of a draft and their responses, the seed field being
\* blanked in between
RequestNext ==
  \/ handleNumberChange("random_seed", "")
  \/ FormSubmit
  \/ \E r \in requests, ok \in BOOLEAN : FetchResolve(r, ok)
  \/ \E r \in requests, error \in FetchRejections : FetchReject(r, error)
  \/ \E r \in requests, detail \in Details : TextResolve(r, detail)
  \/ \E r \in requests, error \in BodyRejections : TextReject(r, error)
  \/ \E r \in requests, json \in Payloads : JsonResolve(r, json)
  \/ \E r \in requests, error \in BodyRejections : JsonReject(r, error)

RequestSpec == DraftInit /\ [][RequestNext]_vars

----------------------------------------------------------------------------
(* Observations used by the properties *)

\* ids of the invocations still suspended
InFlightIds == {r.id : r \in requests}

\* ids of the invocations that have run to completion
SettledIds == (1..issued) \ InFlightIds

\* a step in which some invocation runs to completion
SettleStep == lastSettled'.id # lastSettled.id

\* a step in which an invocation stores the JSON it received
SuccessStep == SettleStep /\ lastSettled'.json # None

\* a step in which an invocation ends in the catch block
FailureStep == SettleStep /\ lastSettled'.json = None

\* a step in which handleSubmit calls fetch
IssueStep == issued' = issued + 1

----------------------------------------------------------------------------
(* Properties *)

\* C1: overlapping submissions are last-settled-wins: the stored result is
\* the JSON of the invocation that settled last (null when that one failed),
\* whatever the order in which the requests were issued; in particular when
\* B was issued after A and settled before it, the result after both is A's.
C1_LastSettledWins == lastSettled.id # 0 => result = lastSettled.json

\* C1 witness: A settled last with a payload, after a later-issued B had
\* already settled, and nothing is in flight.
C1_Overtaken ==
  /\ requests = {}
  /\ lastSettled.json # None
  /\ result = lastSettled.json
  /\ \E b \in SettledIds : b > lastSettled.id

\* C2: every step that stores a new result leaves the active tab on
\* "visual", whatever the result holds and whatever the tab was.  (The
\* claim's second half, that nothing else but a tab selection moves the
\* tab, is the frame condition stated by C3.)
C2_TabResetOnEveryResult == [][SuccessStep => activeTab' = "visual"]_vars

\* C3: neither a failed submission nor the start of one changes the tab.
C3_TabKeptOnFailure ==
  [][(FailureStep \/ IssueStep) => activeTab' = activeTab]_vars

\* C4: a successful settlement leaves exactly its JSON in the result slot
\* and null in the error slot.
C4_SuccessClearsError ==
  [][SuccessStep => (result' = lastSettled'.json /\ errorMessage' = None)]_vars

\* C5: when the body of a non-2xx response has been read, the result is
\* null and the error is the body, or the fixed fallback for an empty body.
C5_HttpError ==
  [][\A r \in requests, detail \in Details :
       TextResolve(r, detail) =>
         /\ result' = None
         /\ errorMessage' = Some(IF detail = "" THEN HttpFallback ELSE detail)]_vars

\* C5 witness: a non-2xx response with a body has settled.
C5_BodyShown ==
  /\ errorMessage = Some("Internal Server Error")
  /\ result = None
  /\ lastSettled.id # 0

\* C6 as stated: a rejected fetch or a rejected response.json() surfaces
\* the generic fallback, never the message of what was thrown.
C6_AlwaysGeneric ==
  [][\A r \in requests :
       /\ \A error \in FetchRejections :
            FetchReject(r, error) => errorMessage' = Some(GenericFallback)
       /\ \A error \in BodyRejections :
            JsonReject(r, error) => errorMessage' = Some(GenericFallback)]_vars

\* C6 amended: a rejected fetch, response.text() or response.json() clears
\* the result, ends loading, and surfaces the message of the thrown value
\* when it is an Error, the generic fallback only when it is not.
C6_MessageOfError ==
  [][\A r \in requests, error \in FetchRejections \cup BodyRejections :
       (FetchReject(r, error) \/ TextReject(r, error) \/ JsonReject(r, error)) =>
         /\ result' = None
         /\ loading' = FALSE
         /\ errorMessage' =
              Some(IF error.isError THEN error.message ELSE GenericFallback)]_vars

\* C6 witness: a fetch was rejected with a TypeError and its message is shown.
C6_FetchMessageShown ==
  /\ errorMessage = Some("Failed to fetch")
  /\ result = None
  /\ ~loading
  /\ lastSettled.id # 0

\* a positive number
Positive(v) == v.kind = "number" /\ v.n > 0

\* the messages of the fields of a draft that are not positive numbers
FieldMessages(f) ==
  (IF Positive(f.m) THEN {} ELSE {MsgM})
    \cup (IF Positive(f.num_neighborhoods) THEN {} ELSE {MsgNeighborhoods})
    \cup (IF Positive(f.k) THEN {} ELSE {MsgK})

Range(seq) == {seq[i] : i \in DOMAIN seq}

\* C7: a submit of a draft with a field that is 0, negative or NaN shows an
\* error made of a non-empty list holding the message of every such field,
\* and issues no request.
C7_InvalidDraftNotSent ==
  [][(handleSubmit /\ FieldMessages(form) # {}) =>
       /\ validateForm(form) # <<>>
       /\ FieldMessages(form) \subseteq Range(validateForm(form))
       /\ errorMessage' # None
       /\ errorMessage' # Some("")
       /\ UNCHANGED <<requests, issued, loading, result>>]_vars

\* C7 witness: a draft holding NaN and a blank (0) field was submitted; its
\* error is shown and nothing was sent.
C7_ErrorShown ==
  /\ form.m = NaN
  /\ form.k = Num(0)
  /\ Positive(form.num_neighborhoods)
  /\ errorMessage = Some(MsgM \o " " \o MsgK)
  /\ issued = 0

\* the four rules in their order: the message of each, and whether a
\* draft violates it
RuleMessages == <<MsgM, MsgNeighborhoods, MsgK, MsgKExceeds>>
RuleViolated(f) ==
  <<~Positive(f.m),
    ~Positive(f.num_neighborhoods),
    ~Positive(f.k),
    f.k.kind = "number" /\ f.num_neighborhoods.kind = "number"
      /\ ~(f.k.n <= f.num_neighborhoods.n)>>

RECURSIVE ReferenceErrors(_, _)
ReferenceErrors(f, i) ==
  IF i > Len(RuleMessages) THEN <<>>
  ELSE (IF RuleViolated(f)[i] THEN <<RuleMessages[i]>> ELSE <<>>)
         \o ReferenceErrors(f, i + 1)

Submittable(f) ==
  /\ Positive(f.m)
  /\ Positive(f.num_neighborhoods)
  /\ Positive(f.k)
  /\ f.k.n <= f.num_neighborhoods.n

\* C8: validateForm returns the message of every violated rule, in the
\* order m, neighborhoods, k, k-exceeds, and returns the empty list exactly
\* for the submittable drafts.
C8_ValidateMatchesRules ==
  /\ validateForm(form) = ReferenceErrors(form, 1)
  /\ (validateForm(form) = <<>>) <=> Submittable(form)

\* C8 witness: a submitted draft that violates all four rules at once.
C8_AllFourReported ==
  /\ Len(validateForm(form)) = 4
  /\ errorMessage = Some(Join(RuleMessages))

\* C9: at most one HTTP request is outstanding.
C9_AtMostOneInFlight == Cardinality({r \in requests : r.pc = "fetch"}) <= 1

\* C10: loading is true right after a request is issued and false right
\* after any invocation settles; with every pending promise eventually
\* settling, loading always becomes false again.
C10_Lifecycle ==
  /\ [][IssueStep => loading']_vars
  /\ [][SettleStep => ~loading']_vars
  /\ loading ~> ~loading

\* C10 witness: a request was issued, has settled, and loading is false.
C10_BackToIdle ==
  /\ lastSettled.id # 0
  /\ requests = {}
  /\ ~loading

\* the requests a step adds
NewRequests == {r \in requests' : r.id \notin InFlightIds}

\* C11: every submit invocation that gets past validation causes exactly one
\* POST /simular, whose body holds m, num_neighborhoods and k as the form
\* holds them at that moment; no step makes two calls, and a failure is not
\* followed by a retry (the failing step makes no call)
C11_OneCallPerSubmit ==
  [][/\ issued' \in {issued, issued + 1}
     /\ Cardinality(NewRequests) = issued' - issued
     /\ (handleSubmit /\ Submittable(form)) => IssueStep
     /\ IssueStep =>
          \E r \in NewRequests :
            /\ r.id = issued'
            /\ r.pc = "fetch"
            /\ r.body.m = form.m
            /\ r.body.num_neighborhoods = form.num_neighborhoods
            /\ r.body.k = form.k
     /\ FailureStep => (issued' = issued /\ NewRequests = {})]_vars

\* a call is in flight whose body carries a num_neighborhoods that differs
\* from its k, and an earlier call has failed without being repeated
C11_CallInFlightAfterFailure ==
  /\ issued = 2
  /\ lastSettled = [id |-> 1, json |-> None]
  /\ \E r \in requests :
       /\ r.id = 2
       /\ r.body.num_neighborhoods = Num(2)
       /\ r.body.k = Num(1)

\* C12: the body has the key random_seed exactly when the seed field is not
\* blank at submit time: a blank seed leaves the key out (it is not sent as
\* null), and a numeric seed, 0 included, is sent as that number
C12_SeedKeyIffNotBlank ==
  [][IssueStep =>
       \E r \in NewRequests :
         /\ (r.body.random_seed # None) <=> (form.random_seed # EmptyString)
         /\ form.random_seed = EmptyString => r.body.random_seed = None
         /\ form.random_seed.kind = "number" => r.body.random_seed = Some(form.random_seed)]_vars

\* one call in flight was sent with seed 0, another after the seed field was
\* blanked
C12_ZeroSentBlankOmitted ==
  /\ form.random_seed = EmptyString
  /\ \E r \in requests : r.body.random_seed = Some(Num(0))
  /\ \E r \in requests : r.body.random_seed = None

----------------------------------------------------------------------------
(* Derived views.  What the page shows is a function of result and          *)
(* activeTab, evaluated at every render.  Numbers of the views are exact    *)
(* rationals num/den; the rounding of the doubles is not modelled.          *)

\* longest hospital list, inertia history, summary list and neighborhood
\* list of the solver's answers, and the largest cluster index
MaxCluster == 16
MaxHospitals == 3
MaxHistory == 3
MaxSummaries == 3
MaxNeighborhoods == 2

Rat(num, den) == [num |-> num, den |-> den]
RatEq(a, b) == a.num * b.den = b.num * a.den
RatLess(a, b) == a.num * b.den < b.num * a.den
RatLessEq(a, b) == a.num * b.den <= b.num * a.den

\* Math.max(...values), Math.min(...values)
MathMax(values) == CHOOSE x \in values : \A y \in values : y <= x
MathMin(values) == CHOOSE x \in values : \A y \in values : x <= y

\* the sequences without repetition over a set
InjectiveSeqs(S) ==
  {s \in UNION {[1..n -> S] : n \in 0..Cardinality(S)} :
     \A i, j \in DOMAIN s : s[i] = s[j] => i = j}

\* a SimulationResponse
Response(grid_size, hospitals, neighborhoods, history, resumen_hospitales) ==
  [grid_size |-> grid_size,
   hospitals |-> hospitals,
   neighborhoods |-> neighborhoods,
   metrics |-> [iterations |-> 1, history |-> history],
   resumen_hospitales |-> resumen_hospitales]

\* resumen.find((item) => item.hospital_id === id) by position instead
findByPosition(resumen, id) ==
  IF id + 1 \in DOMAIN resumen THEN Some(resumen[id + 1]) ELSE None

\* resumen.find((item) => item.hospital_id === id): the first match
find(resumen, id) ==
  LET matches == {i \in DOMAIN resumen : resumen[i].hospital_id = id} IN
    IF matches = {} THEN None ELSE Some(resumen[MathMin(matches)])

\* the summary a hospital without one is given
NoSummary == [vecindarios_asignados |-> 0, avg_distance |-> None]

\* the summary a row is composed from
matching(resumen, hospital) ==
  IF find(resumen, hospital.id) = None THEN NoSummary ELSE find(resumen, hospital.id)[1]

\* HospitalsTable without the default for avg_distance
HospitalsTableUnsetAverage(resumen, hospitals) ==
  IF Len(hospitals) = 0
    THEN None
    ELSE Some([i \in DOMAIN hospitals |->
           [id |-> hospitals[i].id,
            x |-> hospitals[i].x,
            y |-> hospitals[i].y,
            vecindarios_asignados |-> matching(resumen, hospitals[i]).vecindarios_asignados,
            avg_distance |-> matching(resumen, hospitals[i]).avg_distance]])

\* the rows of HospitalsTable, or null; a row's avg_distance is a key that
\* is always present
HospitalsTable(resumen, hospitals) ==
  IF Len(hospitals) = 0
    THEN None
    ELSE Some([i \in DOMAIN hospitals |->
           [id |-> hospitals[i].id,
            x |-> hospitals[i].x,
            y |-> hospitals[i].y,
            vecindarios_asignados |-> matching(resumen, hospitals[i]).vecindarios_asignados,
            avg_distance |->
              IF matching(resumen, hospitals[i]).avg_distance = None
                THEN Some(0)
                ELSE matching(resumen, hospitals[i]).avg_distance]])

\* the rows of HospitalsTable of the page without tabs, whose rows have no
\* avg_distance
HospitalsTableUntabbed(resumen, hospitals) ==
  IF Len(hospitals) = 0
    THEN None
    ELSE Some([i \in DOMAIN hospitals |->
           [id |-> hospitals[i].id,
            x |-> hospitals[i].x,
            y |-> hospitals[i].y,
            vecindarios_asignados |-> matching(resumen, hospitals[i]).vecindarios_asignados]])

\* range = max - min, without the fallback
ChartRangeNoFallback(max, min) == max - min

\* range = max - min || 1
ChartRange(max, min) == IF max - min = 0 THEN 1 ELSE max - min

\* x = (index / history.length) * 100
DrawXOverLength(index, length) == Rat(index * 100, length)

\* x = (index / Math.max(history.length - 1, 1)) * 100
DrawX(index, length) == Rat(index * 100, MathMax({length - 1, 1}))

\* y = ((value - min) / range) * 100
DrawYUpsideDown(value, min, range) == Rat((value - min) * 100, range)

\* y = 100 - ((value - min) / range) * 100
DrawY(value, min, range) == Rat(100 * range - (value - min) * 100, range)

\* the values of a sequence
Values(seq) == {seq[i] : i \in DOMAIN seq}

\* ConvergenceChart: null for an empty history, else the points of the
\* polyline (index counts from 0) and the two values of the caption
ConvergenceChart(history) ==
  IF Len(history) = 0
    THEN None
    ELSE Some([points |->
                 [i \in DOMAIN history |->
                    [x |-> DrawX(i - 1, Len(history)),
                     y |-> DrawY(history[i], MathMin(Values(history)),
                                 ChartRange(MathMax(Values(history)),
                                            MathMin(Values(history))))]],
               first |-> history[1],
               last |-> history[Len(history)]])

\* max of the counts, without the floor of 1
LoadMaxNoFloor(resumen) ==
  MathMax({resumen[i].vecindarios_asignados : i \in DOMAIN resumen})

\* Math.max(...resumen.map((item) => item.vecindarios_asignados), 1)
LoadMax(resumen) ==
  MathMax({resumen[i].vecindarios_asignados : i \in DOMAIN resumen} \cup {1})

\* ClusterLoadChart: null for an empty summary list, else one bar per
\* summary with its width in percent
ClusterLoadChart(resumen) ==
  IF Len(resumen) = 0
    THEN None
    ELSE Some([i \in DOMAIN resumen |->
           [hospital_id |-> resumen[i].hospital_id,
            vecindarios_asignados |-> resumen[i].vecindarios_asignados,
            width |-> Rat(resumen[i].vecindarios_asignados * 100, LoadMax(resumen))]])

\* metrics.history ?? []
HistoryOf(metrics) == IF metrics.history = None THEN <<>> ELSE metrics.history[1]

\* TrainingCharts: null, or the two panels, each rendered or not
TrainingCharts(metrics, resumen) ==
  IF ~(Len(HistoryOf(metrics)) > 1) /\ ~(Len(resumen) > 0)
    THEN None
    ELSE Some([convergence |->
                 IF Len(HistoryOf(metrics)) > 1
                   THEN ConvergenceChart(HistoryOf(metrics))
                   ELSE None,
               load |-> IF Len(resumen) > 0 THEN ClusterLoadChart(resumen) ELSE None])

\* the analytics section of the page without tabs: the chart is given the
\* history whatever its length
AnalyticsConvergenceChart(metrics) == ConvergenceChart(HistoryOf(metrics))

clusterPalette ==
  <<"#3D8B7D", "#8FBC91", "#DBC557", "#ECBDBF", "#F9DFE0", "#579487", "#C28D5F", "#9E6D9A">>

\* const invertedY = (y) => grid_size - y
invertedY(grid_size, y) == grid_size - y

\* SimulationPlot with the hospitals drawn without the inversion
SimulationPlotHospitalsUpright(res) ==
  [circles |->
     [i \in DOMAIN res.neighborhoods |->
        [cx |-> res.neighborhoods[i].x,
         cy |-> invertedY(res.grid_size, res.neighborhoods[i].y),
         fill |-> clusterPalette[(res.neighborhoods[i].cluster % Len(clusterPalette)) + 1]]],
   hospitals |->
     [i \in DOMAIN res.hospitals |->
        [cx |-> res.hospitals[i].x,
         cy |-> res.hospitals[i].y,
         label |-> [x |-> res.hospitals[i].x, y |-> res.hospitals[i].y + 10]]]]

\* SimulationPlot with a cluster index beyond the palette given the last
\* color instead of wrapping around
SimulationPlotFillClamped(res) ==
  [circles |->
     [i \in DOMAIN res.neighborhoods |->
        [cx |-> res.neighborhoods[i].x,
         cy |-> invertedY(res.grid_size, res.neighborhoods[i].y),
         fill |->
           clusterPalette[MathMin({res.neighborhoods[i].cluster, Len(clusterPalette) - 1}) + 1]]],
   hospitals |->
     [i \in DOMAIN res.hospitals |->
        [cx |-> res.hospitals[i].x,
         cy |-> invertedY(res.grid_size, res.hospitals[i].y),
         label |->
           [x |-> res.hospitals[i].x,
            y |-> invertedY(res.grid_size, res.hospitals[i].y) + 10]]]]

\* SimulationPlot: a circle per neighborhood, a circle and a label per
\* hospital
SimulationPlot(res) ==
  [circles |->
     [i \in DOMAIN res.neighborhoods |->
        [cx |-> res.neighborhoods[i].x,
         cy |-> invertedY(res.grid_size, res.neighborhoods[i].y),
         fill |-> clusterPalette[(res.neighborhoods[i].cluster % Len(clusterPalette)) + 1]]],
   hospitals |->
     [i \in DOMAIN res.hospitals |->
        [cx |-> res.hospitals[i].x,
         cy |-> invertedY(res.grid_size, res.hospitals[i].y),
         label |->
           [x |-> res.hospitals[i].x,
            y |-> invertedY(res.grid_size, res.hospitals[i].y) + 10]]]]

\* const resumen = result?.resumen_hospitales ?? []
resumen ==
  IF result = None \/ result[1].resumen_hospitales = None
    THEN <<>>
    ELSE result[1].resumen_hospitales[1]

\* what the three tab panels show of the views above; null when the panel
\* is not rendered
ShownPlot ==
  IF result # None /\ activeTab = "visual" THEN Some(SimulationPlot(result[1])) ELSE None

ShownTrainingCharts ==
  IF result # None /\ activeTab = "metricas"
    THEN TrainingCharts(result[1].metrics, resumen)
    ELSE None

ShownConvergenceChart ==
  IF ShownTrainingCharts = None THEN None ELSE ShownTrainingCharts[1].convergence

ShownLoadChart ==
  IF ShownTrainingCharts = None THEN None ELSE ShownTrainingCharts[1].load

ShownTable ==
  IF result # None /\ activeTab = "hospitales"
    THEN HospitalsTable(resumen, result[1].hospitals)
    ELSE None

----------------------------------------------------------------------------
(* The solver's answers the views are checked on *)

\* the hospital with a given id and its summary: the summaries of the
\* hospitals with an odd id have the required keys only, the others have
\* avg_distance and coordinates as well
Hospital(id) == [id |-> id, x |-> 2 * id + 1, y |-> 3 * id + 2]
Summary(id) ==
  [hospital_id |-> id,
   vecindarios_asignados |-> 11 + id,
   avg_distance |-> IF id % 2 = 1 THEN None ELSE Some(4 + id),
   coordinates |-> IF id % 2 = 1 THEN None ELSE Some([x |-> 2 * id + 2, y |-> 3 * id + 3])]

HospitalIds == 0..(MaxHospitals - 1)

HospitalLists ==
  {[i \in DOMAIN ids |-> Hospital(ids[i])] : ids \in InjectiveSeqs(HospitalIds)}

\* summary lists with unique hospital_id, in every order, with any of the
\* hospitals missing
SummaryLists ==
  {[i \in DOMAIN ids |-> Summary(ids[i])] : ids \in InjectiveSeqs(HospitalIds)}

TablePayloads ==
  {Response(10, hospitals, <<>>, None, resumen_hospitales) :
     hospitals \in HospitalLists,
     resumen_hospitales \in {None} \cup {Some(list) : list \in SummaryLists}}

InertiaValues == {7, 10, 50, 100}

Histories == UNION {[1..n -> InertiaValues] : n \in 0..MaxHistory}

ChartPayloads ==
  {Response(10, <<Hospital(0)>>, <<>>, history, resumen_hospitales) :
     history \in {None} \cup {Some(h) : h \in Histories},
     resumen_hospitales \in {None, Some(<<Summary(0)>>)}}

AssignedCounts == {0, 1, 3, 9}

CountLists ==
  {[i \in DOMAIN counts |->
      [hospital_id |-> i - 1, vecindarios_asignados |-> counts[i],
       avg_distance |-> None, coordinates |-> None]] :
     counts \in UNION {[1..n -> AssignedCounts] : n \in 0..MaxSummaries}}

LoadPayloads ==
  {Response(10, <<Hospital(0)>>, <<>>, None, resumen_hospitales) :
     resumen_hospitales \in {None} \cup {Some(list) : list \in CountLists}}

PlotXs == {1, 4}
PlotYs == {0, 3, 10}
PlotHospitals == [id : {0}, x : PlotXs, y : PlotYs]

NeighborhoodLists ==
  {[i \in DOMAIN points |->
      [id |-> i - 1, x |-> points[i][1], y |-> points[i][2], cluster |-> i - 1]] :
     points \in UNION {[1..n -> PlotXs \X PlotYs] : n \in 0..MaxNeighborhoods}}

PlotPayloads ==
  {Response(grid_size, hospitals, neighborhoods, None, None) :
     grid_size \in GridSizes,
     hospitals \in {<<>>} \cup {<<h>> : h \in PlotHospitals},
     neighborhoods \in NeighborhoodLists}

\* the initial form has been submitted and the 2xx response has arrived:
\* the invocation is suspended at await response.json()
ViewInit ==
  /\ form = initialForm
  /\ result = None
  /\ loading = TRUE
  /\ errorMessage = None
  /\ activeTab = "visual"
  /\ requests = {[id |-> 1, body |-> JSONStringify(RequestPayload(initialForm)), pc |-> "json"]}
  /\ issued = 1
  /\ lastSettled = [id |-> 0, json |-> None]

TableNext ==
  \/ \E r \in requests, json \in TablePayloads : JsonResolve(r, json)
  \/ \E tab \in Tabs : SelectTab(tab)

TableSpec == ViewInit /\ [][TableNext]_vars

ChartNext ==
  \/ \E r \in requests, json \in ChartPayloads : JsonResolve(r, json)
  \/ \E tab \in Tabs : SelectTab(tab)

ChartSpec == ViewInit /\ [][ChartNext]_vars

LoadNext ==
  \/ \E r \in requests, json \in LoadPayloads : JsonResolve(r, json)
  \/ \E tab \in Tabs : SelectTab(tab)

LoadSpec == ViewInit /\ [][LoadNext]_vars

PlotNext ==
  \/ \E r \in requests, json \in PlotPayloads : JsonResolve(r, json)
  \/ \E tab \in Tabs : SelectTab(tab)

PlotSpec == ViewInit /\ [][PlotNext]_vars

\* answers with up to two neighborhoods of any cluster index
ClusterLists ==
  {[i \in DOMAIN clusters |-> [id |-> i - 1, x |-> 3 * i, y |-> 2 * i, cluster |-> clusters[i]]] :
     clusters \in UNION {[1..n -> 0..MaxCluster] : n \in 0..2}}

PalettePayloads ==
  {Response(10, <<Hospital(0)>>, neighborhoods, None, None) : neighborhoods \in ClusterLists}

PaletteNext ==
  \/ \E r \in requests, json \in PalettePayloads : JsonResolve(r, json)
  \/ \E tab \in Tabs : SelectTab(tab)

PaletteSpec == ViewInit /\ [][PaletteNext]_vars

----------------------------------------------------------------------------
(* Properties of the derived views *)
\* the rows of a table, none when the table is null
RowsOf(table) == IF table = None THEN <<>> ELSE table[1]

\* the count a hospital's row must show: that of its summary, 0 without one
ExpectedCount(summaries, id) ==
  IF \E i \in DOMAIN summaries : summaries[i].hospital_id = id
    THEN (CHOOSE s \in Values(summaries) : s.hospital_id = id).vecindarios_asignados
    ELSE 0

\* a summary list with the summaries of the hospitals in gone taken out
Without(summaries, gone) ==
  LET Kept(s) == s.hospital_id \notin gone IN SelectSeq(summaries, Kept)

\* C13: the hospital table has exactly one row per hospital, in the order
\* of the hospitals; a row shows the vecindarios_asignados of the summary
\* with the hospital's id, or 0 when there is none; the rows are the same
\* for every permutation of the summaries, and taking summaries out changes
\* only the rows of their hospitals (to 0)
C13_RowPerHospital ==
  (result # None /\ activeTab = "hospitales") =>
    LET hospitals == result[1].hospitals IN
      /\ \A rows \in {RowsOf(ShownTable), RowsOf(HospitalsTableUntabbed(resumen, hospitals))} :
           /\ Len(rows) = Len(hospitals)
           /\ \A i \in DOMAIN hospitals :
                /\ rows[i].id = hospitals[i].id
                /\ rows[i].vecindarios_asignados = ExpectedCount(resumen, hospitals[i].id)
      /\ \A p \in Permutations(DOMAIN resumen) :
           LET permuted == [i \in DOMAIN resumen |-> resumen[p[i]]] IN
             /\ HospitalsTable(permuted, hospitals) = ShownTable
             /\ HospitalsTableUntabbed(permuted, hospitals) =
                  HospitalsTableUntabbed(resumen, hospitals)
      /\ \A gone \in SUBSET HospitalIds :
           LET rows == RowsOf(HospitalsTable(Without(resumen, gone), hospitals)) IN
             /\ Len(rows) = Len(hospitals)
             /\ \A i \in DOMAIN hospitals :
                  rows[i].vecindarios_asignados =
                    IF hospitals[i].id \in gone
                      THEN 0
                      ELSE RowsOf(ShownTable)[i].vecindarios_asignados

\* hospitals 2, 0, 1 with the summaries of 1 and 0 only, in that order: the
\* rows show 0, 11 and 12
C13_ThreeRowsOneDefaulted ==
  /\ ShownTable # None
  /\ result[1].hospitals = <<Hospital(2), Hospital(0), Hospital(1)>>
  /\ resumen = <<Summary(1), Summary(0)>>
  /\ Len(ShownTable[1]) = 3
  /\ ShownTable[1][1].vecindarios_asignados = 0
  /\ ShownTable[1][2].vecindarios_asignados = 11
  /\ ShownTable[1][3].vecindarios_asignados = 12

\* C14 as stated: a row takes coordinates, avg_distance and count from the
\* hospital's summary when there is one; without a summary, or with a
\* summary that has no avg_distance, the row's avg_distance is left unset
C14_MergedOrLeftUnset ==
  ShownTable # None =>
    \A i \in DOMAIN result[1].hospitals :
      LET row == ShownTable[1][i]
          found == find(resumen, result[1].hospitals[i].id)
      IN /\ found # None =>
              /\ row.vecindarios_asignados = found[1].vecindarios_asignados
              /\ row.avg_distance = found[1].avg_distance
              /\ found[1].coordinates # None =>
                   (row.x = found[1].coordinates[1].x /\ row.y = found[1].coordinates[1].y)
         /\ found = None =>
              (row.vecindarios_asignados = 0 /\ row.avg_distance = None)

\* C14 amended: a row's id, x and y are the hospital's own; count and
\* avg_distance are the summary's when there is one; avg_distance is 0
\* without a summary or when the summary has none, and the count is 0
\* without a summary
C14_DefaultsToZero ==
  ShownTable # None =>
    \A i \in DOMAIN result[1].hospitals :
      LET row == ShownTable[1][i]
          hospital == result[1].hospitals[i]
          found == find(resumen, hospital.id)
      IN /\ row.id = hospital.id /\ row.x = hospital.x /\ row.y = hospital.y
         /\ found # None =>
              /\ row.vecindarios_asignados = found[1].vecindarios_asignados
              /\ found[1].avg_distance # None => row.avg_distance = found[1].avg_distance
              /\ found[1].avg_distance = None => row.avg_distance = Some(0)
         /\ found = None =>
              (row.vecindarios_asignados = 0 /\ row.avg_distance = Some(0))

\* the table shows a hospital without a summary, one whose summary has no
\* avg_distance and one whose summary has an avg_distance and coordinates
C14_AllThreeKindsOfRow ==
  /\ ShownTable # None
  /\ result[1].hospitals = <<Hospital(0), Hospital(1), Hospital(2)>>
  /\ resumen = <<Summary(1), Summary(0)>>
  /\ ShownTable[1][1].avg_distance = Some(4)
  /\ ShownTable[1][2].avg_distance = Some(0)
  /\ ShownTable[1][3].avg_distance = Some(0)

\* the inertia history of the stored result
History == IF result = None THEN <<>> ELSE HistoryOf(result[1].metrics)

\* the points of the convergence chart the page shows
ShownPoints == ShownConvergenceChart[1].points

\* a history whose samples are all equal
Flat(history) == \A i, j \in DOMAIN history : history[i] = history[j]

\* C15 as stated: a flat history has every sample drawn at y = 50, the
\* middle of the chart, and nothing is divided by zero
C15_FlatAtMidpoint ==
  (ShownConvergenceChart # None /\ Flat(History)) =>
    \A i \in DOMAIN History :
      ShownPoints[i].y.den # 0 /\ RatEq(ShownPoints[i].y, Rat(50, 1))

\* C15 amended: a flat history has every sample drawn at y = 100, the
\* bottom edge of the chart, and nothing is divided by zero
C15_FlatAtBottom ==
  (ShownConvergenceChart # None /\ Flat(History)) =>
    \A i \in DOMAIN History :
      ShownPoints[i].y.den # 0 /\ RatEq(ShownPoints[i].y, Rat(100, 1))

\* the chart of the history [7, 7] is on screen
C15_FlatHistoryShown ==
  ShownConvergenceChart # None /\ History = <<7, 7>>

\* C16 as stated: for the history [100, 50, 10] the minimum is 10, the
\* maximum 100, the range 90; sample 0 is drawn at y = 100, sample 2 at
\* y = 0 and sample 1 at y = 100 - (40/90)*100
C16_ExampleAsStated ==
  (ShownConvergenceChart # None /\ History = <<100, 50, 10>>) =>
    /\ MathMin(Values(History)) = 10
    /\ MathMax(Values(History)) = 100
    /\ ChartRange(MathMax(Values(History)), MathMin(Values(History))) = 90
    /\ RatEq(ShownPoints[1].y, Rat(100, 1))
    /\ RatEq(ShownPoints[3].y, Rat(0, 1))
    /\ RatEq(ShownPoints[2].y, Rat(100 * 90 - 40 * 100, 90))

\* C16 amended: for the history [100, 50, 10] the minimum is 10, the
\* maximum 100, the range 90; sample 0 is drawn at y = 0, sample 2 at
\* y = 100 and sample 1 at y = 100 - (40/90)*100
C16_ExampleAsComputed ==
  (ShownConvergenceChart # None /\ History = <<100, 50, 10>>) =>
    /\ MathMin(Values(History)) = 10
    /\ MathMax(Values(History)) = 100
    /\ ChartRange(MathMax(Values(History)), MathMin(Values(History))) = 90
    /\ RatEq(ShownPoints[1].y, Rat(0, 1))
    /\ RatEq(ShownPoints[3].y, Rat(100, 1))
    /\ RatEq(ShownPoints[2].y, Rat(100 * 90 - 40 * 100, 90))

\* the chart of the history [100, 50, 10] is on screen
C16_ExampleShown ==
  ShownConvergenceChart # None /\ History = <<100, 50, 10>>

\* C17: for a history h0..hn of at least 2 samples that is not flat, sample
\* i is drawn at x = (i / max(n, 1)) * 100 and
\* y = 100 - ((h_i - lo) / (hi - lo)) * 100; every point lies in
\* [0,100] x [0,100]; x is 0 for the first sample, 100 for the last and
\* strictly increasing; a maximum is drawn at y = 0, a minimum at y = 100,
\* and a larger sample is drawn strictly higher (smaller y)
C17_NormalizedIntoChartSpace ==
  (ShownConvergenceChart # None /\ Len(History) >= 2 /\ ~Flat(History)) =>
    LET n == Len(History) - 1
        lo == MathMin(Values(History))
        hi == MathMax(Values(History))
        P == ShownPoints
    IN /\ Len(P) = n + 1
       /\ \A i \in DOMAIN P :
            /\ P[i].x.den > 0 /\ P[i].y.den > 0
            /\ RatEq(P[i].x, Rat((i - 1) * 100, IF n > 1 THEN n ELSE 1))
            /\ RatEq(P[i].y, Rat(100 * (hi - lo) - (History[i] - lo) * 100, hi - lo))
            /\ RatLessEq(Rat(0, 1), P[i].x) /\ RatLessEq(P[i].x, Rat(100, 1))
            /\ RatLessEq(Rat(0, 1), P[i].y) /\ RatLessEq(P[i].y, Rat(100, 1))
            /\ History[i] = hi => RatEq(P[i].y, Rat(0, 1))
            /\ History[i] = lo => RatEq(P[i].y, Rat(100, 1))
       /\ RatEq(P[1].x, Rat(0, 1))
       /\ RatEq(P[n + 1].x, Rat(100, 1))
       /\ \A i, j \in DOMAIN P :
            /\ i < j => RatLess(P[i].x, P[j].x)
            /\ History[i] > History[j] => RatLess(P[i].y, P[j].y)

\* the chart of a history of three different samples, rising then falling,
\* is on screen
C17_ThreeLevelsShown ==
  /\ ShownConvergenceChart # None
  /\ History = <<50, 100, 7>>

\* C18: a history that is absent or has fewer than 2 samples makes the
\* convergence chart render nothing, in the page with tabs (whatever the
\* tab) and in the page without tabs that has the chart
C18_ShortHistoryNoChart ==
  (result # None /\ Len(History) < 2) =>
    /\ TrainingCharts(result[1].metrics, resumen) # None =>
         TrainingCharts(result[1].metrics, resumen)[1].convergence = None
    /\ ShownConvergenceChart = None
    /\ AnalyticsConvergenceChart(result[1].metrics) = None

\* the counts of the summaries of the stored result
Counts == [i \in DOMAIN resumen |-> resumen[i].vecindarios_asignados]

\* the bars of the load chart the page shows
ShownBars == ShownLoadChart[1]

\* C19: for a non-empty list of non-negative counts the load chart has one
\* bar per summary, of width (count / maxCount) * 100 percent with
\* maxCount = max(max(counts), 1): every width lies in [0, 100], a summary
\* holding the maximum count >= 1 has width 100, all-zero counts give
\* widths 0 with nothing divided by zero, and the counts [3, 0, 9] give
\* the fractions 3/9, 0 and 1; an empty summary list renders no chart
C19_LoadBarsNormalized ==
  (result # None /\ activeTab = "metricas") =>
    IF Len(resumen) = 0
      THEN ShownLoadChart = None
      ELSE LET maxCount == IF MathMax(Values(Counts)) > 1 THEN MathMax(Values(Counts)) ELSE 1 IN
        /\ ShownLoadChart # None
        /\ Len(ShownBars) = Len(resumen)
        /\ \A i \in DOMAIN resumen :
             /\ ShownBars[i].width.den > 0
             /\ RatEq(ShownBars[i].width, Rat(Counts[i] * 100, maxCount))
             /\ RatLessEq(Rat(0, 1), ShownBars[i].width)
             /\ RatLessEq(ShownBars[i].width, Rat(100, 1))
             /\ (Counts[i] = MathMax(Values(Counts)) /\ Counts[i] >= 1) =>
                  RatEq(ShownBars[i].width, Rat(100, 1))
             /\ Values(Counts) = {0} => RatEq(ShownBars[i].width, Rat(0, 1))
        /\ Counts = <<3, 0, 9>> =>
             /\ RatEq(ShownBars[1].width, Rat(3 * 100, 9))
             /\ RatEq(ShownBars[2].width, Rat(0, 1))
             /\ RatEq(ShownBars[3].width, Rat(100, 1))

\* the load chart of the counts [3, 0, 9] is on screen
C19_ExampleBarsShown ==
  ShownLoadChart # None /\ Counts = <<3, 0, 9>>

\* the sign of a difference
Sign(d) == IF d > 0 THEN 1 ELSE IF d < 0 THEN -1 ELSE 0

\* the points of a result and the places they are drawn at: neighborhoods
\* first, then hospitals
PlotPoints(res) ==
  [i \in DOMAIN res.neighborhoods |-> [x |-> res.neighborhoods[i].x, y |-> res.neighborhoods[i].y]]
    \o [i \in DOMAIN res.hospitals |-> [x |-> res.hospitals[i].x, y |-> res.hospitals[i].y]]

Drawn(plot) ==
  [i \in DOMAIN plot.circles |-> [x |-> plot.circles[i].cx, y |-> plot.circles[i].cy]]
    \o [i \in DOMAIN plot.hospitals |-> [x |-> plot.hospitals[i].cx, y |-> plot.hospitals[i].cy]]

\* C20: every point (x, y), neighborhood or hospital, is drawn at
\* (x, grid_size - y); inverting the drawn y again gives y back; between
\* any two points the sign of the x difference is kept and the sign of the
\* y difference is reversed
C20_GeometryMapper ==
  ShownPlot # None =>
    LET g == result[1].grid_size
        points == PlotPoints(result[1])
        drawn == Drawn(ShownPlot[1])
    IN /\ Len(drawn) = Len(points)
       /\ \A i \in DOMAIN points :
            /\ drawn[i].x = points[i].x
            /\ drawn[i].y = g - points[i].y
            /\ invertedY(g, drawn[i].y) = points[i].y
       /\ \A i, j \in DOMAIN points :
            /\ Sign(drawn[i].x - drawn[j].x) = Sign(points[i].x - points[j].x)
            /\ Sign(drawn[i].y - drawn[j].y) = -Sign(points[i].y - points[j].y)

\* the plot shows two neighborhoods and a hospital at three different
\* heights, each drawn at a y that differs from its own
C20_ThreePointsDrawn ==
  /\ ShownPlot # None
  /\ result[1].grid_size = 20
  /\ Len(result[1].neighborhoods) = 2
  /\ Len(result[1].hospitals) = 1
  /\ result[1].neighborhoods[1].y = 0
  /\ result[1].neighborhoods[2].y = 3
  /\ result[1].neighborhoods[1].x # result[1].neighborhoods[2].x
  /\ result[1].hospitals[1].y = 10
  /\ ShownPlot[1].circles[1].cy = 20
  /\ ShownPlot[1].circles[2].cy = 17
  /\ ShownPlot[1].hospitals[1].cy = 10

\* C21: the palette is a fixed sequence of at least 8 pairwise different
\* colors; every neighborhood of cluster c >= 0 is filled with the color at
\* position c mod palette length, so its color is defined, clusters that
\* differ by the palette length get the same color, and two different
\* clusters below the palette length get different colors
C21_PaletteCycles ==
  /\ Len(clusterPalette) >= 8
  /\ \A a, b \in DOMAIN clusterPalette : clusterPalette[a] = clusterPalette[b] => a = b
  /\ ShownPlot # None =>
       LET neighborhoods == result[1].neighborhoods
           circles == ShownPlot[1].circles
           length == Len(clusterPalette)
       IN \A i \in DOMAIN neighborhoods :
            /\ circles[i].fill \in Values(clusterPalette)
            /\ neighborhoods[i].cluster < length =>
                 circles[i].fill = clusterPalette[neighborhoods[i].cluster + 1]
            /\ \A j \in DOMAIN neighborhoods :
                 /\ neighborhoods[i].cluster = neighborhoods[j].cluster + length =>
                      circles[i].fill = circles[j].fill
                 /\ ( /\ neighborhoods[i].cluster < length
                      /\ neighborhoods[j].cluster < length
                      /\ neighborhoods[i].cluster # neighborhoods[j].cluster ) =>
                      circles[i].fill # circles[j].fill

\* the plot shows a neighborhood of cluster 7 and one of cluster 15 in the
\* last color of the palette
C21_WrappedClusterDrawn ==
  /\ ShownPlot # None
  /\ Len(result[1].neighborhoods) = 2
  /\ result[1].neighborhoods[1].cluster = 7
  /\ result[1].neighborhoods[2].cluster = 15
  /\ ShownPlot[1].circles[1].fill = "#9E6D9A"
  /\ ShownPlot[1].circles[2].fill = "#9E6D9A"

\* C22: from the step that issues a request on, loading is true after
\* every step that leaves that request unsettled, whatever the step is
C22_LoadingUntilSettled ==
  [][/\ IssueStep => loading'
     /\ \A r \in requests : r.id \in InFlightIds' => loading']_vars

\* a step that moves the active tab without any invocation settling: a
\* click on a tab button
TabStep == activeTab' # activeTab /\ ~SettleStep

\* C23: the active tab is always one of the three tabs; whenever the tabs
\* are on screen, each of them can be selected from the current one in one
\* step that makes it the active tab; and a tab selection leaves the stored
\* result, the error, the loading flag and the form as they were
C23_TabSelectionUnconditional ==
  /\ [](activeTab \in Tabs)
  /\ [](result # None =>
          \A tab \in Tabs : ENABLED (SelectTab(tab) /\ activeTab' = tab))
  /\ [][TabStep => UNCHANGED <<form, result, loading, errorMessage, requests, issued>>]_vars

\* the 'hospitales' tab was selected while a later submission is loading
C23_TabSelectedWhileLoading ==
  /\ activeTab = "hospitales"
  /\ result # None
  /\ loading
  /\ requests # {}

\* C24: loading is false only when no request is in flight
C24_LoadingTracksRequests == ~loading => requests = {}

\* the messages of the rules a draft violates, in the order of the rules,
\* with a single space between two of them
RECURSIVE SpacedMessages(_, _)
SpacedMessages(f, i) ==
  IF i > Len(RuleMessages) THEN ""
  ELSE IF ~RuleViolated(f)[i] THEN SpacedMessages(f, i + 1)
  ELSE IF \E j \in (i + 1)..Len(RuleMessages) : RuleViolated(f)[j]
    THEN RuleMessages[i] \o " " \o SpacedMessages(f, i + 1)
    ELSE RuleMessages[i]

\* C25: a submit of a draft that fails validation replaces the error by
\* the validation messages joined with single spaces and changes nothing
\* else: result, loading, active tab and form stay as they were, and no
\* request is made
C25_InvalidSubmitOnlySetsError ==
  [][(handleSubmit /\ ~Submittable(form)) =>
       /\ errorMessage' = Some(SpacedMessages(form, 1))
       /\ UNCHANGED <<form, result, loading, activeTab, requests, issued>>]_vars

\* a stored result is on screen next to the two messages of a submit made
\* with the number of neighborhoods blanked
C25_ResultKeptBesideError ==
  /\ result # None
  /\ ~loading
  /\ form.num_neighborhoods = Num(0)
  /\ errorMessage = Some(MsgNeighborhoods \o " " \o MsgKExceeds)

====
